---- MODULE Spec2Model ----
(***************************************************************************)
(* Model of the assessment session of src/index.tsx (the App component):   *)
(* the React state of the component, its event handlers, the timer effect  *)
(* and the callbacks of the question-generation request.                   *)
(***************************************************************************)
EXTENDS Integers, Sequences, FiniteSets, TLC

VARIABLES step, profile, questions, currentQuestionIndex, answers, error,
          timeLeft,
          inFlight,    \* generateContent requests awaiting their result
          lastEvent    \* history: the handler that produced this state

vars == <<step, profile, questions, currentQuestionIndex, answers, error,
          timeLeft, inFlight, lastEvent>>

----------------------------------------------------------------------------
(* Program constants *)

\* useState(600), setTimeLeft(600): the session duration in seconds
TIME_LIMIT == 600

\* the prompt asks the service for 10 questions
QUIZ_LENGTH == 10

\* the prompt asks for 4 options per question
OPTION_COUNT == 4

\* the literal of `score >= 7`
PASS_MARK == 7

(* Bounds of the model *)

\* lengths 0..MaxShort of the short (non-conforming) responses
MaxShort == 2

\* the user picks freely among the rendered options for the first
\* FreeChoice questions and clicks the first option afterwards
FreeChoice == 2

\* the longest question or explanation text wraps to MaxTextLines lines
MaxTextLines == 4

----------------------------------------------------------------------------
(* Values *)

NULL == "null"

VALIDATION_ERROR == "Please fill in all fields."

GENERATION_ERROR ==
  "Failed to generate quiz. Please try again or check your connection."

\* what the user can type into a profile field
FieldValues == {"", "A B"}

UserProfile == [name : FieldValues, rank : FieldValues, vessel : FieldValues]

OptionLabels == <<"A", "B", "C", "D">>

\* a text of the response: which text it is, and the number of lines
\* doc.splitTextToSize breaks it into (with its "Q<n>: " or "Note: " prefix)
\* at the width generatePDF prints it
Text(id, lines) == [id |-> id, lines |-> lines]

\* a QuizQuestion
Question(nOptions, correct) ==
  [question |-> Text(0, 1),
   options |-> SubSeq(OptionLabels, 1, nOptions),
   correctAnswerIndex |-> correct,
   explanation |-> Text(0, 1)]

\* the i-th (1-based) question of a conforming response
GoodQuestion(i) ==
  [Question(OPTION_COUNT, (i - 1) % OPTION_COUNT) EXCEPT
     !.question = Text(i, 1 + (i % 3)),
     !.explanation = Text(i, 1 + (i % 2))]

\* items JSON.parse accepts although they break the Question shape
BadQuestions == {Question(OPTION_COUNT - 1, 0), Question(OPTION_COUNT, OPTION_COUNT)}

\* the i-th item of a short response: conforming or not
ShortItems(i) == {GoodQuestion(i)} \cup BadQuestions

ShortResponses ==
  UNION {{r \in [1..n -> BadQuestions \cup {GoodQuestion(k) : k \in 1..n}] :
            \A i \in 1..n : r[i] \in ShortItems(i)} : n \in 0..MaxShort}

FullResponse == [i \in 1..QUIZ_LENGTH |-> GoodQuestion(i)]

LongResponse == [i \in 1..(QUIZ_LENGTH + 1) |-> GoodQuestion(i)]

\* the arrays JSON.parse(response.text) can return
Responses == ShortResponses \cup {FullResponse, LongResponse}

----------------------------------------------------------------------------
(* State after the first render *)

Init ==
  /\ step = "profile"
  /\ profile = [name |-> "", rank |-> "", vessel |-> ""]
  /\ questions = <<>>
  /\ currentQuestionIndex = 0
  /\ answers = <<>>
  /\ error = NULL
  /\ timeLeft = TIME_LIMIT
  /\ inFlight = 0
  /\ lastEvent = "init"

----------------------------------------------------------------------------
(* Pure helpers *)

\* questions[i] and answers[i] of the source are 0-based
QuestionAt(i) == questions[i + 1]

HasAnswer(i) == i + 1 <= Len(answers)

\* variant: the quiz screen stays mounted after the step left "quiz"
RenderedOptions_anyStep ==
  IF step \in {"quiz", "results"} /\ Len(questions) > 0
  THEN 0 .. (Len(QuestionAt(currentQuestionIndex).options) - 1)
  ELSE {}

\* the option buttons the quiz screen renders for the current question
RenderedOptions ==
  IF step = "quiz" /\ Len(questions) > 0
  THEN 0 .. (Len(QuestionAt(currentQuestionIndex).options) - 1)
  ELSE {}

\* the clicks the model lets the user make on the current question
Clicks ==
  IF currentQuestionIndex < FreeChoice THEN RenderedOptions
  ELSE RenderedOptions \cap {0}

\* variant: a missing answer is read as option 0
RECURSIVE ScoreUpTo_missingAsZero(_)
ScoreUpTo_missingAsZero(n) ==
  IF n = 0 THEN 0
  ELSE ScoreUpTo_missingAsZero(n - 1) +
       (IF (IF HasAnswer(n - 1) THEN answers[n] ELSE 0)
             = questions[n].correctAnswerIndex
        THEN 1 ELSE 0)

RECURSIVE ScoreUpTo(_)
ScoreUpTo(n) ==
  IF n = 0 THEN 0
  ELSE ScoreUpTo(n - 1) +
       (IF HasAnswer(n - 1) /\ answers[n] = questions[n].correctAnswerIndex
        THEN 1 ELSE 0)

calculateScore == ScoreUpTo(Len(questions))

passed == calculateScore >= PASS_MARK

\* the literal of `score >= 7` in generatePDF
REPORT_PASS_MARK == 7

\* `passed` as generatePDF computes it for the RESULT line of the report
pdfPassed == calculateScore >= REPORT_PASS_MARK

----------------------------------------------------------------------------
(* generatePDF: the question review of the report *)

\* let yPos = 110
FIRST_BLOCK_Y == 110

\* if (yPos > 250)
PAGE_BREAK_AT == 250

\* yPos = 20 after doc.addPage()
TOP_MARGIN == 20

\* yPos += (splitQuestion.length * 5) + 2
QUESTION_LINE_STEP == 5

QUESTION_GAP == 2

\* yPos += 7 after the Result line
RESULT_STEP == 7

\* yPos += 5 after the Your Answer line
YOUR_ANSWER_STEP == 5

\* yPos += 6 after the Correct Answer line
CORRECT_ANSWER_STEP == 6

\* yPos += (splitExplanation.length * 4) + 10
NOTE_LINE_STEP == 4

BLOCK_GAP == 10

\* the footer text is printed at y = 290 on every page
FOOTER_Y == 290

NO_ANSWER == "No Answer (Time expired)"

\* what a template literal prints for a missing array element
UNDEFINED == "undefined"

\* the Your Answer line is printed only under an INCORRECT result
NOT_PRINTED == "(no such line)"

\* q.options[k] with the 0-based k of the source
OptionText(q, k) ==
  IF k \in 0 .. (Len(q.options) - 1) THEN q.options[k + 1] ELSE UNDEFINED

\* the body of the forEach of the review for the i-th (1-based) question,
\* printed from yPos = y on the given page
ReviewBlock(i, y, page) ==
  LET q == questions[i]
      hasAnswered == HasAnswer(i - 1)
      isCorrect == hasAnswered /\ answers[i] = q.correctAnswerIndex
      userAnswer == IF hasAnswered THEN OptionText(q, answers[i]) ELSE NO_ANSWER
      correctAnswer == OptionText(q, q.correctAnswerIndex)
      yResult == y + (q.question.lines * QUESTION_LINE_STEP) + QUESTION_GAP
      yAnswer == yResult + RESULT_STEP
      yCorrect == IF isCorrect THEN yAnswer ELSE yAnswer + YOUR_ANSWER_STEP
      yNote == yCorrect + CORRECT_ANSWER_STEP
  IN [page |-> page,
      number |-> i,
      y |-> y,
      question |-> q.question,
      result |-> IF isCorrect THEN "CORRECT" ELSE "INCORRECT",
      yourAnswer |-> IF isCorrect THEN NOT_PRINTED ELSE userAnswer,
      correctAnswer |-> correctAnswer,
      explanation |-> q.explanation,
      \* the y of the last line of the explanation
      bottom |-> yNote + ((q.explanation.lines - 1) * NOTE_LINE_STEP),
      \* yPos after the block
      yPos |-> yNote + (q.explanation.lines * NOTE_LINE_STEP) + BLOCK_GAP]

\* the page-break test in front of a block that would start at yPos
NeedsPageBreak(yPos) == yPos > PAGE_BREAK_AT

\* the blocks of the first n questions, in the order of the forEach
RECURSIVE ReviewBlocks(_)
ReviewBlocks(n) ==
  IF n = 0 THEN <<>>
  ELSE LET before == ReviewBlocks(n - 1)
           yPos == IF n = 1 THEN FIRST_BLOCK_Y ELSE before[n - 1].yPos
           page == IF n = 1 THEN 1 ELSE before[n - 1].page
       IN IF NeedsPageBreak(yPos)
          THEN Append(before, ReviewBlock(n, TOP_MARGIN, page + 1))
          ELSE Append(before, ReviewBlock(n, yPos, page))

\* the question review of the report generatePDF saves
Review == ReviewBlocks(Len(questions))

----------------------------------------------------------------------------
(* Event handlers, callbacks and the timer effect *)

\* variant: the profile inputs stay editable after the form was left
setProfile_anyStep(field, value) ==
  /\ profile[field] # value
  /\ profile' = [profile EXCEPT ![field] = value]
  /\ UNCHANGED <<step, questions, currentQuestionIndex, answers, error,
                 timeLeft, inFlight>>
  /\ lastEvent' = "setProfile"

\* onChange of one of the three inputs of the profile form
setProfile(field, value) ==
  /\ step = "profile"
  /\ profile[field] # value
  /\ profile' = [profile EXCEPT ![field] = value]
  /\ UNCHANGED <<step, questions, currentQuestionIndex, answers, error,
                 timeLeft, inFlight>>
  /\ lastEvent' = "setProfile"

\* variant: && for || in the validation, only an entirely empty form is
\* rejected
handleProfileSubmit_allEmpty ==
  /\ step = "profile"
  /\ IF profile.name = "" /\ profile.rank = "" /\ profile.vessel = ""
     THEN /\ error' = VALIDATION_ERROR
          /\ UNCHANGED <<step, inFlight>>
     ELSE /\ error' = NULL
          /\ step' = "loading"
          /\ inFlight' = inFlight + 1
  /\ UNCHANGED <<profile, questions, currentQuestionIndex, answers, timeLeft>>
  /\ lastEvent' = "handleProfileSubmit"

\* variant: the form can still be submitted while the request is pending
handleProfileSubmit_whileLoading ==
  /\ step \in {"profile", "loading"}
  /\ IF profile.name = "" \/ profile.rank = "" \/ profile.vessel = ""
     THEN /\ error' = VALIDATION_ERROR
          /\ UNCHANGED <<step, inFlight>>
     ELSE /\ error' = NULL
          /\ step' = "loading"
          /\ inFlight' = inFlight + 1
  /\ UNCHANGED <<profile, questions, currentQuestionIndex, answers, timeLeft>>
  /\ lastEvent' = "handleProfileSubmit"

\* variant: setError(null) forgotten on the successful submit
handleProfileSubmit_keepsError ==
  /\ step = "profile"
  /\ IF profile.name = "" \/ profile.rank = "" \/ profile.vessel = ""
     THEN /\ error' = VALIDATION_ERROR
          /\ UNCHANGED <<step, inFlight>>
     ELSE /\ step' = "loading"
          /\ inFlight' = inFlight + 1
          /\ UNCHANGED error
  /\ UNCHANGED <<profile, questions, currentQuestionIndex, answers, timeLeft>>
  /\ lastEvent' = "handleProfileSubmit"

handleProfileSubmit ==
  /\ step = "profile"
  /\ IF profile.name = "" \/ profile.rank = "" \/ profile.vessel = ""
     THEN /\ error' = VALIDATION_ERROR
          /\ UNCHANGED <<step, inFlight>>
     ELSE /\ error' = NULL
          /\ step' = "loading"
          /\ inFlight' = inFlight + 1
  /\ UNCHANGED <<profile, questions, currentQuestionIndex, answers, timeLeft>>
  /\ lastEvent' = "handleProfileSubmit"

\* generateQuiz, the request resolved with a parsable response text
generateQuizSuccess(generatedQuestions) ==
  /\ inFlight > 0
  /\ questions' = generatedQuestions
  /\ timeLeft' = TIME_LIMIT
  /\ step' = "quiz"
  /\ inFlight' = inFlight - 1
  /\ UNCHANGED <<profile, currentQuestionIndex, answers, error>>
  /\ lastEvent' = "generateQuizSuccess"

\* variant: the questions are stored before the response is rejected
generateQuizFailure_keepsPartial ==
  /\ inFlight > 0
  /\ questions' = <<GoodQuestion(1)>>
  /\ error' = GENERATION_ERROR
  /\ step' = "profile"
  /\ inFlight' = inFlight - 1
  /\ UNCHANGED <<profile, currentQuestionIndex, answers, timeLeft>>
  /\ lastEvent' = "generateQuizFailure"

\* generateQuiz, the catch block: the request rejected, the text was empty
\* or JSON.parse threw
generateQuizFailure ==
  /\ inFlight > 0
  /\ error' = GENERATION_ERROR
  /\ step' = "profile"
  /\ inFlight' = inFlight - 1
  /\ UNCHANGED <<profile, questions, currentQuestionIndex, answers, timeLeft>>
  /\ lastEvent' = "generateQuizFailure"

\* variant: off by one in the last-question test, the quiz ends one
\* question early
handleAnswer_endsEarly(optionIndex) ==
  /\ optionIndex \in RenderedOptions
  /\ answers' = Append(answers, optionIndex)
  /\ IF currentQuestionIndex < Len(questions) - 2
     THEN /\ currentQuestionIndex' = currentQuestionIndex + 1
          /\ UNCHANGED step
     ELSE /\ step' = "results"
          /\ UNCHANGED currentQuestionIndex
  /\ UNCHANGED <<profile, questions, error, timeLeft, inFlight>>
  /\ lastEvent' = "handleAnswer"

handleAnswer(optionIndex) ==
  /\ optionIndex \in RenderedOptions
  /\ answers' = Append(answers, optionIndex)
  /\ IF currentQuestionIndex < Len(questions) - 1
     THEN /\ currentQuestionIndex' = currentQuestionIndex + 1
          /\ UNCHANGED step
     ELSE /\ step' = "results"
          /\ UNCHANGED currentQuestionIndex
  /\ UNCHANGED <<profile, questions, error, timeLeft, inFlight>>
  /\ lastEvent' = "handleAnswer"

\* variant: the interval is armed whatever the step
Tick_anyStep ==
  /\ timeLeft > 0
  /\ timeLeft' = timeLeft - 1
  /\ UNCHANGED <<step, profile, questions, currentQuestionIndex, answers,
                 error, inFlight>>
  /\ lastEvent' = "Tick"

\* variant: the callback takes more than one second off per firing
Tick_bigStep ==
  /\ step = "quiz" /\ timeLeft > 0
  /\ timeLeft' = timeLeft - 7
  /\ UNCHANGED <<step, profile, questions, currentQuestionIndex, answers,
                 error, inFlight>>
  /\ lastEvent' = "Tick"

\* variant: >= for > in the arming test, the interval fires once more at 0
Tick_pastZero ==
  /\ step = "quiz" /\ timeLeft >= 0
  /\ timeLeft' = timeLeft - 1
  /\ UNCHANGED <<step, profile, questions, currentQuestionIndex, answers,
                 error, inFlight>>
  /\ lastEvent' = "Tick"

\* the interval callback armed by the timer effect
Tick ==
  /\ step = "quiz" /\ timeLeft > 0
  /\ timeLeft' = timeLeft - 1
  /\ UNCHANGED <<step, profile, questions, currentQuestionIndex, answers,
                 error, inFlight>>
  /\ lastEvent' = "Tick"

\* variant: the expiry branch tests timeLeft alone
Expire_anyStep ==
  /\ step \in {"quiz", "results"} /\ timeLeft = 0
  /\ step' = "results"
  /\ UNCHANGED <<profile, questions, currentQuestionIndex, answers, error,
                 timeLeft, inFlight>>
  /\ lastEvent' = "Expire"

\* the else-branch of the timer effect
Expire ==
  /\ step = "quiz" /\ timeLeft = 0
  /\ step' = "results"
  /\ UNCHANGED <<profile, questions, currentQuestionIndex, answers, error,
                 timeLeft, inFlight>>
  /\ lastEvent' = "Expire"

\* variant: "Retake" requests a new quiz directly instead of returning to
\* the profile form
restartQuiz_regenerates ==
  /\ step = "results"
  /\ step' = "loading"
  /\ questions' = <<>>
  /\ answers' = <<>>
  /\ currentQuestionIndex' = 0
  /\ error' = NULL
  /\ timeLeft' = TIME_LIMIT
  /\ inFlight' = inFlight + 1
  /\ UNCHANGED profile
  /\ lastEvent' = "restartQuiz"

\* variant: setAnswers([]) forgotten
restartQuiz_keepsAnswers ==
  /\ step = "results"
  /\ step' = "profile"
  /\ questions' = <<>>
  /\ currentQuestionIndex' = 0
  /\ error' = NULL
  /\ timeLeft' = TIME_LIMIT
  /\ UNCHANGED <<profile, inFlight, answers>>
  /\ lastEvent' = "restartQuiz"

\* variant: setTimeLeft(600) forgotten
restartQuiz_keepsTime ==
  /\ step = "results"
  /\ step' = "profile"
  /\ questions' = <<>>
  /\ answers' = <<>>
  /\ currentQuestionIndex' = 0
  /\ error' = NULL
  /\ UNCHANGED <<profile, inFlight, timeLeft>>
  /\ lastEvent' = "restartQuiz"

\* variant: setCurrentQuestionIndex(0) forgotten
restartQuiz_keepsIndex ==
  /\ step = "results"
  /\ step' = "profile"
  /\ questions' = <<>>
  /\ answers' = <<>>
  /\ error' = NULL
  /\ timeLeft' = TIME_LIMIT
  /\ UNCHANGED <<profile, inFlight, currentQuestionIndex>>
  /\ lastEvent' = "restartQuiz"

restartQuiz ==
  /\ step = "results"
  /\ step' = "profile"
  /\ questions' = <<>>
  /\ answers' = <<>>
  /\ currentQuestionIndex' = 0
  /\ error' = NULL
  /\ timeLeft' = TIME_LIMIT
  /\ UNCHANGED <<profile, inFlight>>
  /\ lastEvent' = "restartQuiz"

\* the "Download Official Report" button: compiles and saves the report,
\* no React state is written
generatePDF ==
  /\ step = "results"
  /\ UNCHANGED <<step, profile, questions, currentQuestionIndex, answers,
                 error, timeLeft, inFlight>>
  /\ lastEvent' = "generatePDF"

UserEdits == \E f \in {"name", "rank", "vessel"}, v \in FieldValues : setProfile(f, v)

GenerationSucceeds == \E r \in Responses : generateQuizSuccess(r)

UserAnswers == \E idx \in Clicks : handleAnswer(idx)

Next ==
  \/ UserEdits
  \/ handleProfileSubmit
  \/ GenerationSucceeds
  \/ generateQuizFailure
  \/ UserAnswers
  \/ Tick
  \/ Expire
  \/ restartQuiz
  \/ generatePDF

Spec == Init /\ [][Next]_vars

----------------------------------------------------------------------------
(* Names of the session states *)

Intake == step = "profile"
Generating == step = "loading"
InProgress == step = "quiz"
Completed == step = "results"

ProfileComplete ==
  profile.name # "" /\ profile.rank # "" /\ profile.vessel # ""

----------------------------------------------------------------------------
(* C1: the session starts in Intake and its state changes only along
   Intake->Generating (submit of a complete profile), Generating->InProgress
   (generation success), Generating->Intake (generation failure),
   InProgress->Completed (answer to the last question, or expiry at 0) and
   Completed->Intake (restart). *)
C1_Edge ==
  \/ /\ step = "profile" /\ step' = "loading"
     /\ lastEvent' = "handleProfileSubmit" /\ ProfileComplete
  \/ /\ step = "loading" /\ step' = "quiz"
     /\ lastEvent' = "generateQuizSuccess"
  \/ /\ step = "loading" /\ step' = "profile"
     /\ lastEvent' = "generateQuizFailure"
  \/ /\ step = "quiz" /\ step' = "results"
     /\ \/ lastEvent' = "handleAnswer" /\ currentQuestionIndex = Len(questions) - 1
        \/ lastEvent' = "Expire" /\ timeLeft = 0
  \/ /\ step = "results" /\ step' = "profile"
     /\ lastEvent' = "restartQuiz"

C1_OnlyLifecycleEdges ==
  /\ step = "profile"
  /\ [][step' # step => C1_Edge]_vars

\* an attempt of the full question set that expiry completed
C1_Witness ==
  /\ step = "results" /\ lastEvent = "Expire"
  /\ error = NULL /\ Len(questions) = QUIZ_LENGTH /\ Len(answers) = 1

(* C2: every answer submission appends exactly one entry to answers, at the
   position currentQuestionIndex of the question being answered; answers
   never holds more entries than there are questions; the only other change
   of answers is the reset by restart. *)
C2_Append ==
  \/ /\ lastEvent' = "handleAnswer"
     /\ step = "quiz"
     /\ Len(answers) = currentQuestionIndex
     /\ Len(answers') = Len(answers) + 1
     /\ SubSeq(answers', 1, Len(answers)) = answers
     /\ answers'[currentQuestionIndex + 1] \in
          0 .. (Len(QuestionAt(currentQuestionIndex).options) - 1)
  \/ /\ lastEvent' = "restartQuiz" /\ answers' = <<>>

C2_OneAnswerPerQuestionInOrder ==
  /\ [](Len(answers) <= Len(questions))
  /\ [][(answers' # answers \/ lastEvent' = "handleAnswer") => C2_Append]_vars

\* expiry left a trailing suffix of the questions unanswered
C2_Witness ==
  /\ step = "results" /\ lastEvent = "Expire"
  /\ Len(questions) = QUIZ_LENGTH
  /\ Len(answers) = FreeChoice + 1 /\ answers[1] = 3

(* C3: once the session is Completed, answers and currentQuestionIndex stay
   as they are until restart: no answer is recorded after completion. *)
C3_NoAnswerAfterCompleted ==
  [][step = "results" =>
       \/ lastEvent' = "restartQuiz" /\ step' = "profile"
       \/ UNCHANGED <<step, answers, currentQuestionIndex, questions, timeLeft>>]_vars

\* the session expired on a question whose option buttons were on screen
C3_Witness ==
  /\ step = "results" /\ lastEvent = "Expire" /\ timeLeft = 0
  /\ Len(questions) > 0 /\ answers = <<>>

(* C4: the session is InProgress or Completed only with a question set of
   exactly 10 questions, each with exactly 4 options and a
   correctAnswerIndex that indexes into them; every other response is a
   generation failure. *)
ValidQuestion(q) ==
  /\ Len(q.options) = OPTION_COUNT
  /\ q.correctAnswerIndex \in 0 .. (Len(q.options) - 1)

C4_OnlyTenValidQuestions ==
  step \in {"quiz", "results"} =>
    /\ Len(questions) = QUIZ_LENGTH
    /\ \A i \in 1..Len(questions) : ValidQuestion(questions[i])

(* C5: a generation failure takes the session from Generating to Intake in
   one step, with the error set, questions and answers empty,
   currentQuestionIndex 0 and timeLeft 600; no Intake state holds partial
   data. *)
FreshAttemptData ==
  /\ questions = <<>> /\ answers = <<>>
  /\ currentQuestionIndex = 0 /\ timeLeft = TIME_LIMIT

C5_FailureReturnsToCleanIntake ==
  /\ [](step = "profile" => FreshAttemptData)
  /\ [](lastEvent = "generateQuizFailure" =>
          step = "profile" /\ error = GENERATION_ERROR /\ FreshAttemptData)
  /\ [][lastEvent' = "generateQuizFailure" => step = "loading"]_vars

\* the profile form right after a failed generation
C5_Witness ==
  /\ lastEvent = "generateQuizFailure" /\ step = "profile"
  /\ error = GENERATION_ERROR /\ ProfileComplete

(* C6: a submit with an empty name, rank or vessel is rejected with the
   validation error, the state stays Intake, no request is issued and
   questions, answers, currentQuestionIndex and timeLeft are unchanged; the
   session moves to Generating only on a submit with all three fields
   non-empty. *)
C6_Submit ==
  IF ~ProfileComplete
  THEN /\ error' = VALIDATION_ERROR
       /\ step = "profile" /\ step' = "profile"
       /\ UNCHANGED <<inFlight, profile, questions, answers,
                      currentQuestionIndex, timeLeft>>
  ELSE /\ step = "profile" /\ step' = "loading"
       /\ inFlight' = inFlight + 1

C6_IncompleteProfileRejected ==
  [][/\ lastEvent' = "handleProfileSubmit" => C6_Submit
     /\ (step' = "loading" /\ step # "loading") =>
          lastEvent' = "handleProfileSubmit" /\ ProfileComplete
     /\ inFlight' > inFlight => ProfileComplete]_vars

\* a submit with only the name filled in was rejected
C6_Witness ==
  /\ lastEvent = "handleProfileSubmit" /\ step = "profile"
  /\ error = VALIDATION_ERROR
  /\ profile.name # "" /\ profile.rank = "" /\ profile.vessel = ""

(* C7, as the spec states it: restart yields Intake with an empty profile,
   empty questions, empty answers, currentQuestionIndex 0 and timeLeft
   600. *)
EmptyProfile == [name |-> "", rank |-> "", vessel |-> ""]

----------------------------------------------------------------------------
(* The session of a user who fills in the form and then leaves the quiz
   alone: every operation but the answer click, and the interval of the
   timer effect keeps firing while it is armed. *)
NextIdle ==
  \/ UserEdits
  \/ handleProfileSubmit
  \/ GenerationSucceeds
  \/ generateQuizFailure
  \/ Tick
  \/ Expire
  \/ restartQuiz

IdleSpec ==
  Init /\ [][NextIdle]_vars /\ WF_vars(Tick) /\ WF_vars(Expire)

(* C8: with the tick scheduled fairly, a session that enters InProgress
   with timeLeft = 600 and gets no user action reaches timeLeft = 0 and is
   then Completed by expiry with fewer than 10 answers, and the unanswered
   questions score no hit. *)
C8_IdleSessionExpires ==
  (step = "quiz" /\ timeLeft = TIME_LIMIT) ~>
    (/\ step = "results" /\ lastEvent = "Expire" /\ timeLeft = 0
     /\ Len(answers) < QUIZ_LENGTH
     /\ calculateScore = 0)

\* the full question set, expired without a single answer
C8_Witness ==
  /\ step = "results" /\ lastEvent = "Expire" /\ timeLeft = 0
  /\ questions = FullResponse /\ answers = <<>> /\ calculateScore = 0

(* C9: in a session of 10 questions, each of the first 9 answers keeps the
   session InProgress and advances currentQuestionIndex by 1, and the 10th
   answer completes it with exactly 10 answers recorded, whatever timeLeft
   is at each submission. *)
C9_Answer ==
  IF Len(answers) < QUIZ_LENGTH - 1
  THEN /\ step' = "quiz"
       /\ currentQuestionIndex' = currentQuestionIndex + 1
       /\ Len(answers') = Len(answers) + 1
  ELSE /\ step' = "results"
       /\ Len(answers') = QUIZ_LENGTH

C9_TenAnswersComplete ==
  /\ [](Len(questions) = QUIZ_LENGTH /\ Len(answers) = QUIZ_LENGTH =>
          step = "results")
  /\ [](Len(questions) = QUIZ_LENGTH /\ step = "results"
          /\ lastEvent = "handleAnswer" => Len(answers) = QUIZ_LENGTH)
  /\ [][Len(questions) = QUIZ_LENGTH /\ lastEvent' = "handleAnswer" =>
          C9_Answer]_vars

\* the 10th answer, given in the last second
C9_Witness ==
  /\ step = "results" /\ lastEvent = "handleAnswer"
  /\ Len(questions) = QUIZ_LENGTH /\ Len(answers) = QUIZ_LENGTH
  /\ timeLeft = 1

(* C10: timeLeft goes down only by a tick, by exactly 1 and only while the
   session is InProgress, and the tick changes nothing else; in Intake,
   Generating and Completed timeLeft does not move, except that restart
   puts it back to 600. *)
C10_Step ==
  /\ lastEvent' = "Tick" =>
       /\ step = "quiz" /\ timeLeft' = timeLeft - 1
       /\ UNCHANGED <<step, profile, questions, currentQuestionIndex,
                      answers, error, inFlight>>
  /\ timeLeft' < timeLeft => lastEvent' = "Tick"
  /\ step # "quiz" =>
       \/ timeLeft' = timeLeft
       \/ lastEvent' = "restartQuiz" /\ timeLeft' = TIME_LIMIT

C10_CountdownInertOutsideQuiz ==
  /\ [](step \in {"profile", "loading"} => timeLeft = TIME_LIMIT)
  /\ [][C10_Step]_vars

\* completed by the last answer with part of the time used: the countdown
\* stopped where it was
C10_Witness ==
  /\ step = "results" /\ lastEvent = "handleAnswer"
  /\ timeLeft = TIME_LIMIT - 3

(* C11: completion is signalled at most once per session: when the answer
   to the last question and the expiry are both possible, the one that
   comes first completes the session and the other no longer acts: neither
   the expiry branch nor an answer click is enabled in Completed, so state,
   answers, currentQuestionIndex and timeLeft stay as the first left
   them. *)
CompletionSignal ==
  \/ lastEvent' = "Expire"
  \/ lastEvent' = "handleAnswer" /\ step' = "results"

C11_CompletedOnce ==
  /\ [](step = "results" => ~ENABLED Expire /\ ~ENABLED UserAnswers)
  /\ [][CompletionSignal => step = "quiz" /\ step' = "results"]_vars
  /\ [][step = "results" /\ step' = "results" =>
          UNCHANGED <<answers, currentQuestionIndex, timeLeft>>]_vars

\* the last answer came at timeLeft = 0, before the expiry branch ran
C11_Witness ==
  /\ step = "results" /\ lastEvent = "handleAnswer" /\ timeLeft = 0
  /\ Len(questions) = QUIZ_LENGTH /\ Len(answers) = QUIZ_LENGTH

----------------------------------------------------------------------------
(* Completed sessions taken as inputs of the scoring and of the report: any
   response, any answer given to each answered question (the correct option
   or its neighbour), completed by the last answer or by expiry. *)
AnswerChoices(q) ==
  {q.correctAnswerIndex, (q.correctAnswerIndex + 1) % Len(q.options)}
    \cap (0 .. (Len(q.options) - 1))

AnswerRecords(Q) ==
  UNION {{a \in [1..n -> 0 .. (OPTION_COUNT - 1)] :
            \A i \in 1..n : a[i] \in AnswerChoices(Q[i])} : n \in 0..Len(Q)}

CompletedInit ==
  /\ step = "results"
  /\ profile = [name |-> "A B", rank |-> "A B", vessel |-> "A B"]
  /\ questions \in Responses
  /\ answers \in AnswerRecords(questions)
  /\ currentQuestionIndex =
       IF Len(answers) = Len(questions) /\ Len(questions) > 0
       THEN Len(questions) - 1 ELSE Len(answers)
  /\ timeLeft = (IF Len(answers) = Len(questions) /\ Len(questions) > 0
                 THEN 1 ELSE 0)
  /\ error = NULL
  /\ inFlight = 0
  /\ lastEvent = (IF Len(answers) = Len(questions) /\ Len(questions) > 0
                  THEN "handleAnswer" ELSE "Expire")

ReportSpec == CompletedInit /\ [][generatePDF]_vars

(* C12: the score is the number of indices i < len(answers) at which
   answers[i] equals questions[i].correctAnswerIndex, so it lies in
   0..len(questions) and an index without an answer never counts; passed is
   true exactly when the score is at least 7 (6 fails, 7 passes), and the
   results screen and the report give the same verdict. *)
ReferenceCount ==
  Cardinality({i \in 1..Len(answers) :
                 i <= Len(questions) /\ answers[i] = questions[i].correctAnswerIndex})

C12_ScoreIsReferenceCount ==
  step = "results" =>
    /\ Len(answers) <= Len(questions)
    /\ calculateScore = ReferenceCount
    /\ calculateScore \in 0 .. Len(questions)
    /\ passed <=> calculateScore >= 7
    /\ calculateScore = 6 => ~passed
    /\ calculateScore = 7 => passed
    /\ pdfPassed <=> passed

\* a report of exactly 7 hits, two questions left unanswered by expiry
C12_Witness ==
  /\ lastEvent = "generatePDF" /\ step = "results"
  /\ Len(questions) = QUIZ_LENGTH /\ Len(answers) = QUIZ_LENGTH - 2
  /\ calculateScore = 7 /\ passed /\ pdfPassed

(* C13: every entry into InProgress starts a fresh attempt: right after the
   generation success timeLeft = 600, currentQuestionIndex = 0 and answers
   is empty, on a first attempt, on a retake after restart and on a retry
   after a generation failure. *)
C13_FreshAttemptOnEntry ==
  /\ [](lastEvent = "generateQuizSuccess" =>
          /\ step = "quiz" /\ timeLeft = TIME_LIMIT
          /\ currentQuestionIndex = 0 /\ answers = <<>>)
  /\ [][step # "quiz" /\ step' = "quiz" =>
          lastEvent' = "generateQuizSuccess"]_vars

\* the first render of the quiz of the full question set
C13_Witness ==
  /\ lastEvent = "generateQuizSuccess" /\ step = "quiz"
  /\ questions = FullResponse /\ timeLeft = TIME_LIMIT /\ answers = <<>>
  /\ currentQuestionIndex = 0

(* C14: while the session is Generating only the success or the failure
   callback of the generation request changes it: profile edit, profile
   submit, answer click, restart, report download, tick and expiry are
   disabled; at most one request is outstanding at any time, and a
   callback arrives only while the session is Generating. *)
GenerationCallback ==
  lastEvent' \in {"generateQuizSuccess", "generateQuizFailure"}

C14_GeneratingAcceptsOnlyItsCallback ==
  /\ [](inFlight \in {0, 1} /\ (inFlight = 1 <=> step = "loading"))
  /\ [](step = "loading" =>
          /\ ~ENABLED UserEdits /\ ~ENABLED handleProfileSubmit
          /\ ~ENABLED UserAnswers /\ ~ENABLED restartQuiz
          /\ ~ENABLED generatePDF /\ ~ENABLED Tick /\ ~ENABLED Expire)
  /\ [][step = "loading" => GenerationCallback]_vars
  /\ [][GenerationCallback => step = "loading" /\ inFlight = 1]_vars

\* a request is pending and the form shows no error
C14_Witness ==
  /\ step = "loading" /\ lastEvent = "handleProfileSubmit"
  /\ inFlight = 1 /\ error = NULL /\ questions = <<>>

(* C15: the report has one review block per question, in the original
   order; each block holds the question text, a result that is CORRECT
   exactly when an answer exists at that index and equals
   correctAnswerIndex (INCORRECT when unanswered), the text of the option
   the user selected or the no-answer marker when there is no answer, the
   text of the correct option, and the explanation text. *)
BlockTexts(b) == {b.yourAnswer, b.correctAnswer}

C15_Block(i) ==
  LET b == Review[i]
      q == questions[i]
  IN /\ b.number = i
     /\ b.question = q.question
     /\ b.explanation = q.explanation
     /\ b.result \in {"CORRECT", "INCORRECT"}
     /\ b.result = "CORRECT" <=>
          (i <= Len(answers) /\ answers[i] = q.correctAnswerIndex)
     /\ IF i <= Len(answers)
        THEN /\ answers[i] + 1 \in 1..Len(q.options)
             /\ q.options[answers[i] + 1] \in BlockTexts(b)
        ELSE b.yourAnswer = NO_ANSWER
     /\ q.correctAnswerIndex + 1 \in 1..Len(q.options)
     /\ b.correctAnswer = q.options[q.correctAnswerIndex + 1]

C15_ReviewBlockPerQuestion ==
  step = "results" =>
    /\ Len(Review) = Len(questions)
    /\ \A i \in 1..Len(questions) : C15_Block(i)

----------------------------------------------------------------------------
(* Completed sessions taken as inputs of the pagination: 10 conforming
   questions whose texts all wrap to the same numbers of lines, but for one
   question with numbers of its own; nothing answered, or everything
   answered correctly. *)
LineCounts == 1 .. MaxTextLines

LayoutQuestions(ql, el, k, qk, ek) ==
  [i \in 1..QUIZ_LENGTH |->
     [GoodQuestion(i) EXCEPT
        !.question = Text(i, IF i = k THEN qk ELSE ql),
        !.explanation = Text(i, IF i = k THEN ek ELSE el)]]

AllCorrect(Q) == [i \in 1..Len(Q) |-> Q[i].correctAnswerIndex]

LayoutInit ==
  /\ step = "results"
  /\ profile = [name |-> "A B", rank |-> "A B", vessel |-> "A B"]
  /\ \E ql, el, qk, ek \in LineCounts, k \in 1..QUIZ_LENGTH :
       questions = LayoutQuestions(ql, el, k, qk, ek)
  /\ answers \in {<<>>, AllCorrect(questions)}
  /\ currentQuestionIndex = (IF answers = <<>> THEN 0 ELSE Len(questions) - 1)
  /\ timeLeft = (IF answers = <<>> THEN 0 ELSE 1)
  /\ error = NULL
  /\ inFlight = 0
  /\ lastEvent = (IF answers = <<>> THEN "Expire" ELSE "handleAnswer")

LayoutSpec == LayoutInit /\ [][generatePDF]_vars

(* C16: no review block overflows its page: a block that would not end
   within the usable extent of the page (above the footer) at the running
   offset is preceded by a page break and starts at the top margin, so the
   last line of every block lies within the usable extent. *)
C16_NoBlockOverflowsPage ==
  lastEvent = "generatePDF" =>
    \A i \in 1..Len(Review) :
      /\ Review[i].y >= TOP_MARGIN
      /\ Review[i].bottom <= FOOTER_Y

(* C17: the profile is fixed once the session has left Intake: in
   Generating, InProgress and Completed name, rank and vessel are all
   non-empty, and no step taken in those states changes any of them. *)
C17_ProfileFixedAfterIntake ==
  /\ [](step # "profile" => ProfileComplete)
  /\ [][step # "profile" => profile' = profile]_vars
  /\ [][lastEvent' = "setProfile" => step = "profile" /\ step' = "profile"]_vars

\* the quiz is running on the profile that was submitted
C17_Witness ==
  /\ step = "quiz" /\ lastEvent = "Tick" /\ timeLeft = TIME_LIMIT - 1
  /\ profile = [name |-> "A B", rank |-> "A B", vessel |-> "A B"]

(* C18: expiry is never reported as a failure and errors show only at
   intake: outside Intake the error message is unset; the expiry transition
   sets no error; a successful profile submit and a restart both leave the
   error cleared. *)
C18_ErrorOnlyAtIntake ==
  /\ [](step # "profile" => error = NULL)
  /\ [](lastEvent \in {"Expire", "restartQuiz"} => error = NULL)
  /\ [][lastEvent' = "Expire" => error' = error]_vars
  /\ [][lastEvent' = "handleProfileSubmit" /\ step' = "loading" =>
          error' = NULL]_vars
  /\ [][error' # NULL /\ error' # error =>
          lastEvent' \in {"handleProfileSubmit", "generateQuizFailure"}]_vars

\* the session expired on its last question: completed, with no error
C18_Witness ==
  /\ step = "results" /\ lastEvent = "Expire" /\ error = NULL
  /\ questions = FullResponse /\ Len(answers) = QUIZ_LENGTH - 1

(* C19: currentQuestionIndex tracks answers: always
   0 <= currentQuestionIndex <= len(questions); while InProgress it equals
   len(answers); in Completed either len(answers) = len(questions) =
   currentQuestionIndex + 1 (completed by the last answer) or
   len(answers) = currentQuestionIndex < len(questions) (completed by
   expiry). *)
C19_IndexTracksAnswers ==
  /\ currentQuestionIndex \in 0 .. Len(questions)
  /\ step = "quiz" => currentQuestionIndex = Len(answers)
  /\ step = "results" =>
       \/ /\ Len(answers) = Len(questions)
          /\ Len(questions) = currentQuestionIndex + 1
       \/ /\ Len(answers) = currentQuestionIndex
          /\ currentQuestionIndex < Len(questions)

(* C20: timeLeft stays within 0..600 and is never negative; it is 600
   whenever the session is in Intake or Generating; a tick takes 1 off only
   a timeLeft greater than 0; the expiry fires exactly at 0, and at 0 in
   InProgress it is the timer's only move, so the countdown cannot step
   past 0 and miss it. *)
C20_TimeLeftInRange ==
  /\ [](timeLeft \in 0 .. TIME_LIMIT)
  /\ [](step \in {"profile", "loading"} => timeLeft = TIME_LIMIT)
  /\ [](step = "quiz" /\ timeLeft = 0 => ENABLED Expire /\ ~ENABLED Tick)
  /\ [][lastEvent' = "Tick" =>
          timeLeft > 0 /\ timeLeft' = timeLeft - 1 /\ timeLeft' >= 0]_vars
  /\ [][lastEvent' = "Expire" => timeLeft = 0 /\ timeLeft' = 0]_vars

\* the countdown has just reached 0 and the expiry has not yet run
C20_Witness ==
  /\ step = "quiz" /\ lastEvent = "Tick" /\ timeLeft = 0
  /\ questions = FullResponse

====
